---- MODULE Spec2Model ----
(***************************************************************************)
(* Model of template.py: modify_pptx builds a two-slide template from the  *)
(* anniversary deck, create_anniversary_slides fills it with one text box  *)
(* pair per spreadsheet row and appends a "Thank You" slide.  The          *)
(* presentation host is modelled by the state of the open presentation (a  *)
(* sequence of slides, each a sequence of shapes); every call into the     *)
(* host may raise.                                                         *)
(***************************************************************************)
EXTENDS Integers, Sequences, FiniteSets

VARIABLES
    pc,                 \* position in the script / in the running function
    fsTemplate,         \* the file at output_pptx / template_path
    fsFinal,            \* the file at final_pptx
    powerpoint,         \* the local variable powerpoint of the running call
    pres,               \* slides of the presentation open in the host
    nextId,             \* next slide object identity handed out by the host
    selected_anniversary,
    loop_i,             \* remaining values of the delete loop of modify_pptx
    df,                 \* rows of the spreadsheet
    row_i,              \* number of rows already iterated
    messages_on_slide,
    current_slide,      \* uid of current_slide, 0 for None
    thank_you_slide,    \* uid of the slide add_thank_you_slide made, 0 before
    ret                 \* outcome of the running / last call

vars == << pc, fsTemplate, fsFinal, powerpoint, pres, nextId,
           selected_anniversary, loop_i, df, row_i, messages_on_slide,
           current_slide, thank_you_slide, ret >>

\* ------------------------------------------------------------------ bounds
MaxInputSlides == 4
MaxTemplateSlides == 3
MaxRows == 3

\* ------------------------------------------------------- shapes and slides
Absent == [exists |-> FALSE, slides |-> << >>]

\* Type 13 is a picture, Type 17 a text box.
Shape(type, left, top, hasText, text, row) ==
    [Type |-> type, Left |-> left, Top |-> top,
     HasTextFrame |-> hasText, Text |-> text, row |-> row]

\* AddTextbox(1, left, top, width, height) followed by the Text assignment.
Textbox(left, top, text, row) == Shape(17, left, top, TRUE, text, row)

IsLogo(shape) == shape.Type = 13 /\ shape.Left < 100 /\ shape.Top < 100

PageSetup == [SlideWidth |-> 960, SlideHeight |-> 540]

RECURSIVE SelectSeqIdx(_, _, _)
\* the subsequence of s at the indices in keep, order kept
SelectSeqIdx(s, keep, i) ==
    IF i > Len(s) THEN << >>
    ELSE (IF i \in keep THEN << s[i] >> ELSE << >>) \o SelectSeqIdx(s, keep, i + 1)

\* Slides(i).Delete()
DeleteSlide(deck, i) == SelectSeqIdx(deck, (1..Len(deck)) \ {i}, 1)

\* Slides(i).Duplicate(): the copy is inserted right after slide i
DuplicateAt(deck, i, uid) ==
    SubSeq(deck, 1, i) \o << [deck[i] EXCEPT !.uid = uid] >>
        \o SubSeq(deck, i + 1, Len(deck))

\* slide.MoveTo(pos) for the slide now at index from
MoveTo(deck, from, pos) ==
    LET s == deck[from]
        rest == DeleteSlide(deck, from)
    IN  SubSeq(rest, 1, pos - 1) \o << s >> \o SubSeq(rest, pos, Len(rest))

KeepLogoOnly(shapes) == SelectSeq(shapes, IsLogo)

IndexOfUid(deck, uid) == CHOOSE i \in 1..Len(deck) : deck[i].uid = uid

\* Presentations.Open: the host hands out fresh slide objects
OpenDeck(file) == [i \in 1..Len(file.slides) |-> [file.slides[i] EXCEPT !.uid = i]]

\* SaveAs: object identities are not part of the file
FileOf(deck) ==
    [exists |-> TRUE, slides |-> [i \in 1..Len(deck) |-> [deck[i] EXCEPT !.uid = 0]]]

\* ---------------------------------------------------------------- inputs
\* Slide i of WorkAnniversaryLogo.pptx: logo, anniversary picture, title,
\* name placeholder and a footer.
InputSlide(i) ==
    [uid |-> 0, orig |-> i,
     shapes |-> << Shape(13, 20, 20, FALSE, "", 0),
                   Shape(13, 300, 150, FALSE, "", 0),
                   Shape(14, 200, 50, TRUE, "Happy Work Anniversary", 0),
                   Shape(14, 200, 400, TRUE, "Employee Name", 0),
                   Shape(17, 700, 500, TRUE, "footer", 0) >>]

InputDeck(n) == [exists |-> TRUE, slides |-> [i \in 1..n |-> InputSlide(i)]]

\* A template file that was not written by modify_pptx: a cover and then
\* logo-only slides.
ForeignSlide(i) ==
    [uid |-> 0, orig |-> 10 + i,
     shapes |-> IF i = 1
                THEN << Shape(13, 20, 20, FALSE, "", 0),
                        Shape(13, 300, 150, FALSE, "", 0) >>
                ELSE << Shape(13, 20, 20, FALSE, "", 0) >>]

ForeignDeck(n) == [exists |-> TRUE, slides |-> [i \in 1..n |-> ForeignSlide(i)]]

\* what the user types at "Enter the Work Anniversary"
AnniversaryInputs ==
    { [digits |-> TRUE, val |-> v] : v \in 0..5 } \cup { [digits |-> FALSE, val |-> 0] }

\* "ANNIVERSARY" in Text.upper() or "Employee Name" in Text
IsPlaceholderText(text) == text \in { "Happy Work Anniversary", "Employee Name" }

\* ------------------------------------------------------------ spreadsheet
\* A cell of the Wishes column as str() gives it: pad blanks on either side
\* of core other characters; nan marks the text "nan" in any letter case
\* (an empty cell reads as the float NaN, whose str is "nan").
WishCells ==
    { [pad |-> 0, core |-> 0, nan |-> FALSE],
      [pad |-> 1, core |-> 0, nan |-> FALSE],
      [pad |-> 0, core |-> 3, nan |-> TRUE],
      [pad |-> 0, core |-> 20, nan |-> FALSE],
      [pad |-> 1, core |-> 149, nan |-> FALSE],
      [pad |-> 0, core |-> 150, nan |-> FALSE],
      [pad |-> 0, core |-> 151, nan |-> FALSE] }

RECURSIVE SeqsUpTo(_, _)
SeqsUpTo(S, n) ==
    IF n = 0 THEN { << >> }
    ELSE LET shorter == SeqsUpTo(S, n - 1)
         IN  shorter \cup { Append(q, x) : q \in { r \in shorter : Len(r) = n - 1 }, x \in S }

Spreadsheets == SeqsUpTo({ [Wishes |-> c] : c \in WishCells }, MaxRows)

\* str.strip()
Strip(cell) == [cell EXCEPT !.pad = 0]

\* len()
Length(cell) == cell.core + 2 * cell.pad

\* the column headers of the sheet
ColumnSets ==
    { {"Name", "Wishes"}, {" Name", "Wishes "}, {"Name"}, {"Wishes", "From"},
      {"name", "wishes"} }

StripHeader(c) ==
    IF c = " Name" THEN "Name" ELSE IF c = "Wishes " THEN "Wishes" ELSE c

\* lines 47-49
HasRequiredColumns(cols) ==
    {"Name", "Wishes"} \subseteq { StripHeader(c) : c \in cols }

\* ----------------------------------------------------- message placement
message_template_index == 2
max_messages_per_slide == 2
LongLimit == 150

text_positions_two == << << 100, 100 >>, << 100, 250 >> >>
text_positions_one ==
    << << PageSetup.SlideWidth \div 2 - 250, PageSetup.SlideHeight \div 3 >> >>

\* line 76 without the "nan" test
SkipRow_EmptyOnly(message) == Length(message) = 0

\* line 76
SkipRow(message) == Length(message) = 0 \/ message.nan

\* line 78
IsLongMessage(message) == Length(message) > LongLimit

\* line 79 with > for >=
NeedNewSlide_Late(is_long_message, mos, cur) ==
    is_long_message \/ mos > max_messages_per_slide \/ cur = 0

\* line 79
NeedNewSlide(is_long_message, mos, cur) ==
    is_long_message \/ mos >= max_messages_per_slide \/ cur = 0

\* line 104 counting a long message as one
Advance_ByOne(mos, is_long_message) == mos + 1

\* line 104
Advance(mos, is_long_message) ==
    mos + (IF ~is_long_message THEN 1 ELSE max_messages_per_slide)

\* lines 106-107
TemplateStillExists(deck) == Len(deck) > 2

\* TextRange.BoundHeight of an 18 pt message in a 500 pt wide box
BoundHeight(message) == 25 * ((Length(message) + 49) \div 50)

\* ------------------------------------------------------------ call frames
\* fn: the function called; missing: what the call's arguments lack ("none",
\* "input", "template", "excel", "columns"); how: "running", "returned" or
\* "raised"; exc: the exception that left the function; caught: the exception
\* its except clause caught; printed: the messages printed; started: whether
\* CreateObject gave a PowerPoint application.
Running(fn, missing) ==
    [fn |-> fn, missing |-> missing, how |-> "running", exc |-> "none",
     caught |-> "none", printed |-> {}, started |-> FALSE]

Say(r, msg) == [r EXCEPT !.printed = @ \cup {msg}]
Return(r) == [r EXCEPT !.how = "returned"]
Raise(r, e) == [r EXCEPT !.how = "raised", !.exc = e]

Init ==
    /\ pc = "start"
    /\ fsTemplate \in {Absent} \cup { ForeignDeck(n) : n \in 0..MaxTemplateSlides }
    /\ fsFinal = Absent
    /\ powerpoint = "unbound"
    /\ pres = << >>
    /\ nextId = 1
    /\ selected_anniversary = 0
    /\ loop_i = << >>
    /\ df = << >>
    /\ row_i = 0
    /\ messages_on_slide = 0
    /\ current_slide = 0
    /\ thank_you_slide = 0
    /\ ret = [fn |-> "none", missing |-> "none", how |-> "none", exc |-> "none",
              caught |-> "none", printed |-> {}, started |-> FALSE]

\* ============================================================ modify_pptx
\* line 177 without reversed()
DeleteOrder_Forward(n) == [j \in 1..n |-> j]

\* line 177: reversed(range(1, Count + 1))
DeleteOrder(n) == [j \in 1..n |-> n + 1 - j]

M_unch ==
    UNCHANGED << fsFinal, df, row_i, messages_on_slide, current_slide, thank_you_slide >>

\* except Exception as e: print(...), then the finally clause
M_Except(e) ==
    /\ ret' = Say([ret EXCEPT !.caught = e], "Error in modify_pptx")
    /\ pc' = "m_finally"

\* lines 146-157: the file checks before the try block
M_Call ==
    /\ pc = "start"
    /\ \E inputExists \in BOOLEAN, locked \in BOOLEAN :
         IF ~inputExists
         THEN /\ ret' = Return(Say(Running("modify_pptx", "input"),
                                   "Input PowerPoint file not found"))
              /\ pc' = "mid"
              /\ UNCHANGED fsTemplate
         ELSE IF fsTemplate # Absent /\ locked
         THEN /\ ret' = Return(Say(Running("modify_pptx", "none"),
                                   "Cannot modify, it's open"))
              /\ pc' = "mid"
              /\ UNCHANGED fsTemplate
         ELSE /\ ret' = IF fsTemplate # Absent
                        THEN Say(Running("modify_pptx", "none"), "Closed existing file")
                        ELSE Running("modify_pptx", "none")
              /\ fsTemplate' = Absent
              /\ pc' = "m_createobject"
    /\ powerpoint' = "unbound"
    /\ UNCHANGED << pres, nextId, selected_anniversary, loop_i >>
    /\ M_unch

\* lines 159-160
M_CreateObject ==
    /\ pc = "m_createobject"
    /\ \/ /\ powerpoint' = "running"
          /\ ret' = [ret EXCEPT !.started = TRUE]
          /\ pc' = "m_open"
       \/ /\ M_Except("COMError")
          /\ UNCHANGED powerpoint
    /\ UNCHANGED << fsTemplate, pres, nextId, selected_anniversary, loop_i >>
    /\ M_unch

\* line 161
M_Open ==
    /\ pc = "m_open"
    /\ \/ \E n \in 0..MaxInputSlides :
            /\ pres' = OpenDeck(InputDeck(n))
            /\ nextId' = n + 1
            /\ pc' = "m_input"
            /\ UNCHANGED ret
       \/ /\ M_Except("COMError")
          /\ UNCHANGED << pres, nextId >>
    /\ UNCHANGED << fsTemplate, powerpoint, selected_anniversary, loop_i >>
    /\ M_unch

\* lines 162-174: read the anniversary number, look for the logo on slide 1
M_Input ==
    /\ pc = "m_input"
    /\ \E typed \in AnniversaryInputs :
         IF ~typed.digits
         THEN /\ M_Except("ValueError")
              /\ UNCHANGED << selected_anniversary, loop_i >>
         ELSE IF typed.val \notin {1, 2, 3, 4}
         THEN /\ ret' = Say(ret, "Invalid anniversary number!")
              /\ pc' = "m_finally"
              /\ selected_anniversary' = typed.val
              /\ UNCHANGED loop_i
         ELSE IF Len(pres) < 1
         THEN /\ M_Except("COMError")          \* Slides(1) of an empty deck
              /\ selected_anniversary' = typed.val
              /\ UNCHANGED loop_i
         ELSE /\ selected_anniversary' = typed.val
              /\ loop_i' = DeleteOrder(Len(pres))
              /\ pc' = "m_delete"
              /\ UNCHANGED ret
    /\ UNCHANGED << fsTemplate, powerpoint, pres, nextId >>
    /\ M_unch

\* lines 177-179: one iteration of the delete loop
M_DeleteStep ==
    /\ pc = "m_delete"
    /\ loop_i # << >>
    /\ LET i == Head(loop_i) IN
         IF i = selected_anniversary
         THEN /\ loop_i' = Tail(loop_i)
              /\ UNCHANGED << pres, ret, pc >>
         ELSE \/ /\ i \in 1..Len(pres)
                 /\ pres' = DeleteSlide(pres, i)
                 /\ loop_i' = Tail(loop_i)
                 /\ UNCHANGED << ret, pc >>
              \/ /\ M_Except("COMError")
                 /\ UNCHANGED << pres, loop_i >>
    /\ UNCHANGED << fsTemplate, powerpoint, nextId, selected_anniversary >>
    /\ M_unch

\* lines 182-204: strip the placeholders of slide 1, duplicate it and keep
\* only the logo on the duplicate
M_BuildTemplate ==
    /\ pc = "m_delete"
    /\ loop_i = << >>
    /\ \/ /\ Len(pres) >= 1
          /\ LET first == [pres[1] EXCEPT !.shapes =
                              SelectSeq(@, LAMBDA sh :
                                  ~(sh.HasTextFrame /\ IsPlaceholderText(sh.Text)))]
                 cleaned == << first >> \o Tail(pres)
                 dup == DuplicateAt(cleaned, 1, nextId)
             IN  pres' = [dup EXCEPT ![2].shapes = KeepLogoOnly(@)]
          /\ nextId' = nextId + 1
          /\ pc' = "m_save"
          /\ UNCHANGED ret
       \/ /\ M_Except("COMError")
          /\ UNCHANGED << pres, nextId >>
    /\ UNCHANGED << fsTemplate, powerpoint, selected_anniversary, loop_i >>
    /\ M_unch

\* lines 206-211
M_Save ==
    /\ pc = "m_save"
    /\ \/ /\ fsTemplate' = FileOf(pres)
          /\ ret' = Say(ret, "Modified PowerPoint saved")
          /\ pc' = "m_finally"
       \/ /\ M_Except("COMError")              \* SaveAs or Close raised
          /\ UNCHANGED fsTemplate
    /\ UNCHANGED << powerpoint, pres, nextId, selected_anniversary, loop_i >>
    /\ M_unch

\* lines 214-215: finally: powerpoint.Quit()
M_Finally ==
    /\ pc = "m_finally"
    /\ IF powerpoint = "unbound"
       THEN /\ ret' = Raise(ret, "UnboundLocalError")
            /\ UNCHANGED powerpoint
       ELSE \/ /\ powerpoint' = "quit"
               /\ ret' = Return(ret)
            \/ /\ ret' = Raise(ret, "COMError")
               /\ UNCHANGED powerpoint
    /\ pc' = "mid"
    /\ pres' = << >>                            \* the locals end with the call
    /\ nextId' = 1
    /\ selected_anniversary' = 0
    /\ loop_i' = << >>
    /\ UNCHANGED fsTemplate
    /\ M_unch

\* ============================================== create_anniversary_slides
C_unch == UNCHANGED << fsTemplate, selected_anniversary, loop_i >>

\* except Exception as e: print(...); the function then returns
C_Except(e) ==
    /\ ret' = Return(Say([ret EXCEPT !.caught = e], "Error in create_anniversary_slides"))
    /\ pc' = "end"

\* lines 43-51: the checks before the try block
C_Call ==
    /\ pc \in {"start", "mid"}
    /\ \/ /\ ~fsTemplate.exists
          /\ ret' = Return(Say(Running("create_anniversary_slides", "template"),
                               "template not found. Run modify_pptx() first."))
          /\ pc' = "end"
          /\ df' = << >>
       \/ /\ fsTemplate.exists                 \* read_excel: no such file
          /\ ret' = Raise(Running("create_anniversary_slides", "excel"),
                       "FileNotFoundError")
          /\ pc' = "end"
          /\ df' = << >>
       \/ /\ fsTemplate.exists
          /\ \E cols \in ColumnSets :
               /\ ~HasRequiredColumns(cols)
               /\ ret' = Return(Say(Running("create_anniversary_slides", "columns"),
                                    "Missing required columns in Excel file"))
          /\ pc' = "end"
          /\ df' = << >>
       \/ /\ fsTemplate.exists
          /\ \E cols \in ColumnSets : HasRequiredColumns(cols)
          /\ \E rows \in Spreadsheets : df' = rows
          /\ ret' = Running("create_anniversary_slides", "none")
          /\ pc' = "c_createobject"
    /\ powerpoint' = "unbound"
    /\ pres' = << >>
    /\ nextId' = 1
    /\ row_i' = 0
    /\ messages_on_slide' = 0
    /\ current_slide' = 0
    /\ thank_you_slide' = 0
    /\ UNCHANGED fsFinal
    /\ C_unch

\* lines 53-54
C_CreateObject ==
    /\ pc = "c_createobject"
    /\ \/ /\ powerpoint' = "running"
          /\ ret' = [ret EXCEPT !.started = TRUE]
          /\ pc' = "c_open"
       \/ /\ C_Except("COMError")
          /\ UNCHANGED powerpoint
    /\ UNCHANGED << fsFinal, pres, nextId, df, row_i, messages_on_slide,
                    current_slide, thank_you_slide >>
    /\ C_unch

\* line 55
C_Open ==
    /\ pc = "c_open"
    /\ \/ /\ pres' = OpenDeck(fsTemplate)
          /\ nextId' = Len(fsTemplate.slides) + 1
          /\ pc' = "c_addname"
          /\ UNCHANGED ret
       \/ /\ C_Except("COMError")
          /\ UNCHANGED << pres, nextId >>
    /\ UNCHANGED << fsFinal, powerpoint, df, row_i, messages_on_slide,
                    current_slide, thank_you_slide >>
    /\ C_unch

\* lines 27-39
add_name_to_first_slide(deck) ==
    [deck EXCEPT ![1].shapes =
        Append(@, Textbox(PageSetup.SlideWidth - 450, PageSetup.SlideHeight - 100,
                          "user_name", 0))]

\* lines 56-70: the name on the cover, the slide count check, the loop set-up
C_AddName ==
    /\ pc = "c_addname"
    /\ \/ /\ Len(pres) >= 1
          /\ pres' = add_name_to_first_slide(pres)
          /\ IF Len(pres) < 2
             THEN C_Except("ValueError")
             ELSE /\ pc' = "c_rows"
                  /\ UNCHANGED ret
       \/ /\ C_Except("COMError")
          /\ UNCHANGED pres
    /\ messages_on_slide' = 0
    /\ current_slide' = 0
    /\ row_i' = 0
    /\ UNCHANGED << fsFinal, powerpoint, nextId, df, thank_you_slide >>
    /\ C_unch

\* lines 19-25; the result is the new deck, or << >> for the ValueError
duplicate_slide(deck, slide_index, uid) ==
    IF slide_index < 1 \/ slide_index > Len(deck)
    THEN << >>
    ELSE DuplicateAt(deck, slide_index, uid)

\* lines 84-103: the message box and the signature box under it
AddMessage(deck, uid, pos, message, row) ==
    LET k == IndexOfUid(deck, uid)
        message_height == BoundHeight(message)
    IN  [deck EXCEPT ![k].shapes =
            @ \o << Textbox(pos[1], pos[2], "message", row),
                    Textbox(pos[1], pos[2] + message_height + 10, "signature", row) >>]

\* lines 72-104: one iteration of the row loop
C_Row ==
    /\ pc = "c_rows"
    /\ row_i < Len(df)
    /\ LET message == Strip(df[row_i + 1].Wishes)
           is_long_message == IsLongMessage(message)
           fresh == NeedNewSlide(is_long_message, messages_on_slide, current_slide)
           deck1 == IF fresh THEN duplicate_slide(pres, message_template_index, nextId)
                    ELSE pres
           cur == IF fresh THEN nextId ELSE current_slide
           mos == IF fresh THEN 0 ELSE messages_on_slide
           text_positions == IF is_long_message THEN text_positions_one
                             ELSE text_positions_two
       IN  IF SkipRow(message)
           THEN /\ row_i' = row_i + 1
                /\ UNCHANGED << pres, nextId, messages_on_slide, current_slide, ret, pc >>
           ELSE \/ /\ deck1 = << >>
                   /\ C_Except("ValueError")
                   /\ UNCHANGED << pres, nextId, messages_on_slide, current_slide, row_i >>
                \/ /\ deck1 # << >>
                   /\ (mos + 1) \notin DOMAIN text_positions
                   /\ C_Except("IndexError")
                   /\ pres' = deck1
                   /\ nextId' = IF fresh THEN nextId + 1 ELSE nextId
                   /\ current_slide' = cur
                   /\ messages_on_slide' = mos
                   /\ UNCHANGED row_i
                \/ /\ deck1 # << >>
                   /\ (mos + 1) \in DOMAIN text_positions
                   /\ pres' = AddMessage(deck1, cur, text_positions[mos + 1], message,
                                         row_i + 1)
                   /\ nextId' = IF fresh THEN nextId + 1 ELSE nextId
                   /\ current_slide' = cur
                   /\ messages_on_slide' = Advance(mos, is_long_message)
                   /\ row_i' = row_i + 1
                   /\ UNCHANGED << ret, pc >>
                \/ /\ C_Except("COMError")      \* Duplicate raised
                   /\ UNCHANGED << pres, nextId, messages_on_slide, current_slide, row_i >>
                \/ /\ deck1 # << >>            \* AddTextbox or a later call raised
                   /\ C_Except("COMError")
                   /\ pres' = deck1
                   /\ nextId' = IF fresh THEN nextId + 1 ELSE nextId
                   /\ current_slide' = cur
                   /\ messages_on_slide' = mos
                   /\ UNCHANGED row_i
    /\ UNCHANGED << fsFinal, powerpoint, df, thank_you_slide >>
    /\ C_unch

\* lines 121-142 without the MoveTo of line 124
add_thank_you_slide_NoMove(deck, uid) ==
    LET dup == DuplicateAt(deck, 1, uid)
    IN  [dup EXCEPT ![2].shapes =
            Append(KeepLogoOnly(@),
                   Textbox(PageSetup.SlideWidth \div 2 - 150,
                           PageSetup.SlideHeight \div 2 - 40, "Thank You", 0))]

\* lines 121-142
add_thank_you_slide(deck, uid) ==
    LET dup == DuplicateAt(deck, 1, uid)
        moved == MoveTo(dup, 2, Len(dup))
        last == Len(moved)
    IN  [moved EXCEPT ![last].shapes =
            Append(KeepLogoOnly(@),
                   Textbox(PageSetup.SlideWidth \div 2 - 150,
                           PageSetup.SlideHeight \div 2 - 40, "Thank You", 0))]

\* lines 106-111: drop the template slide, append the thank-you slide
C_Finish ==
    /\ pc = "c_rows"
    /\ row_i = Len(df)
    /\ \/ /\ LET deck1 == IF TemplateStillExists(pres) THEN DeleteSlide(pres, 2)
                          ELSE pres
             IN  pres' = add_thank_you_slide(deck1, nextId)
          /\ thank_you_slide' = nextId
          /\ nextId' = nextId + 1
          /\ pc' = "c_save"
          /\ UNCHANGED ret
       \/ /\ C_Except("COMError")
          /\ UNCHANGED << pres, nextId, thank_you_slide >>
    /\ UNCHANGED << fsFinal, powerpoint, df, row_i, messages_on_slide, current_slide >>
    /\ C_unch

\* lines 113-116
C_Save ==
    /\ pc = "c_save"
    /\ \/ /\ fsFinal' = FileOf(pres)
          /\ powerpoint' = "quit"
          /\ ret' = Return(Say(ret, "Presentation created successfully"))
          /\ pc' = "end"
       \/ /\ C_Except("COMError")              \* SaveAs raised
          /\ UNCHANGED << fsFinal, powerpoint >>
       \/ /\ fsFinal' = FileOf(pres)           \* Close or Quit raised
          /\ C_Except("COMError")
          /\ UNCHANGED powerpoint
    /\ UNCHANGED << pres, nextId, df, row_i, messages_on_slide, current_slide,
                    thank_you_slide >>
    /\ C_unch

Next ==
    \/ M_Call \/ M_CreateObject \/ M_Open \/ M_Input \/ M_DeleteStep
    \/ M_BuildTemplate \/ M_Save \/ M_Finally
    \/ C_Call \/ C_CreateObject \/ C_Open \/ C_AddName \/ C_Row \/ C_Finish
    \/ C_Save

Spec == Init /\ [][Next]_vars
\* ================================================================= claims
Finished == ret.how \in {"returned", "raised"}

\* create_anniversary_slides ran to its last line: the presentation was saved
Saved ==
    /\ pc = "end"
    /\ ret.fn = "create_anniversary_slides"
    /\ ret.how = "returned"
    /\ "Presentation created successfully" \in ret.printed

\* the slides of the open presentation that duplicate_slide created
MessageSlides ==
    { i \in 1..Len(pres) : /\ pres[i].uid > Len(fsTemplate.slides)
                           /\ pres[i].uid # thank_you_slide }

\* the message boxes of slide i, in the order they were added
MessagesOn(i) == SelectSeq(pres[i].shapes, LAMBDA sh : sh.Text = "message")

TextboxesOn(i) == SelectSeq(pres[i].shapes, LAMBDA sh : sh.Type = 17)

RECURSIVE SumOver(_, _)
SumOver(f, S) ==
    IF S = {} THEN 0
    ELSE LET x == CHOOSE y \in S : TRUE IN f[x] + SumOver(f, S \ {x})

\* text boxes on the slides between the cover and the thank-you slide
MessageSlideTextboxes ==
    SumOver([i \in 1..Len(pres) |-> Len(TextboxesOn(i))],
            { i \in 1..Len(pres) : pres[i].uid \notin {1, thank_you_slide} })

\* rows whose Wishes cell, blanks stripped, is neither empty nor "nan"
WrittenRows == { r \in 1..Len(df) : df[r].Wishes.core > 0 /\ ~df[r].Wishes.nan }

\* C1: a call whose input file, template file, Excel file or required column
\* is missing prints a message and returns normally, without having started
\* PowerPoint.
C1_MissingPrintsAndReturns ==
    (Finished /\ ret.missing # "none")
        => (ret.how = "returned" /\ ret.printed # {} /\ ~ret.started)

\* C2: when an automation call raises inside either function, the function
\* prints the error and returns normally; the exception does not propagate.
C2_AutomationErrorsCaught ==
    (Finished /\ (ret.caught = "COMError" \/ ret.exc = "COMError"))
        => /\ ret.how = "returned"
           /\ ret.printed \cap {"Error in modify_pptx",
                                "Error in create_anniversary_slides"} # {}

\* C3 as claimed: a successful run over n rows adds exactly 2n text boxes to
\* the message slides.
C3_TwoBoxesPerRow == Saved => MessageSlideTextboxes = 2 * Len(df)

\* C3 as amended: a successful run adds exactly 2m text boxes to the message
\* slides, m being the number of rows whose stripped Wishes is neither empty
\* nor "nan".
C3_TwoBoxesPerWrittenRow == Saved => MessageSlideTextboxes = 2 * Cardinality(WrittenRows)

C3_Witness ==
    /\ Saved
    /\ Len(df) = 3
    /\ Cardinality(WrittenRows) = 2
    /\ MessageSlideTextboxes = 4

\* C4: between iterations and after a successful run, every slide made by
\* duplicate_slide holds one or two messages, and a slide holding a message
\* of more than 150 characters holds that message only.
C4_MessagesPerSlide ==
    (pc \in {"c_rows", "c_save"} \/ Saved) =>
        \A i \in MessageSlides :
            LET ms == MessagesOn(i) IN
            /\ Len(ms) \in 1..2
            /\ (\E j \in 1..Len(ms) : df[ms[j].row].Wishes.core > 150) => Len(ms) = 1

C4_Witness ==
    /\ Saved
    /\ \E i \in MessageSlides :
          /\ Len(MessagesOn(i)) = 2
          /\ df[MessagesOn(i)[2].row].Wishes.core = 150
    /\ \E i \in MessageSlides :
          /\ Len(MessagesOn(i)) = 1
          /\ df[MessagesOn(i)[1].row].Wishes.core = 151

\* C5: the row loop never indexes a position table out of range, and the
\* messages of one slide get distinct coordinates: (100,100) for the first
\* and (100,250) for the second of two.
C5_PositionsInRange ==
    /\ ret.caught # "IndexError"
    /\ \A i \in MessageSlides :
          LET ms == MessagesOn(i) IN
          /\ \A a, b \in 1..Len(ms) :
                a # b => << ms[a].Left, ms[a].Top >> # << ms[b].Left, ms[b].Top >>
          /\ Len(ms) >= 2 => /\ << ms[1].Left, ms[1].Top >> = << 100, 100 >>
                             /\ << ms[2].Left, ms[2].Top >> = << 100, 250 >>

C5_Witness ==
    /\ pc = "c_rows"
    /\ row_i = 3
    /\ SkipRow(Strip(df[2].Wishes))
    /\ \E i \in MessageSlides : Len(MessagesOn(i)) = 2

\* C6: a saved final presentation never contains the unfilled template
\* slide, slide 2 of the opened template.
C6_TemplateSlideDeleted ==
    Saved => \A i \in 1..Len(pres) : pres[i].uid # message_template_index

WrittenByModify == fsTemplate.exists /\ Len(fsTemplate.slides) >= 1
                   /\ fsTemplate.slides[1].orig \in 1..4

C8_TwoSlideTemplate ==
    /\ pc = "m_save" =>
          /\ selected_anniversary \in 1..4
          /\ Len(pres) = 2
          /\ pres[1].uid = selected_anniversary
          /\ pres[1].orig = selected_anniversary
          /\ pres[2].uid = nextId - 1
          /\ pres[2].orig = selected_anniversary
          /\ \A j \in 1..Len(pres[2].shapes) : IsLogo(pres[2].shapes[j])
    /\ (fsTemplate.exists /\ ret.fn = "modify_pptx" /\ ret.missing = "none"
            /\ "Cannot modify, it's open" \notin ret.printed)
          => Len(fsTemplate.slides) = 2
    /\ (WrittenByModify /\ ret.fn = "create_anniversary_slides")
          => ret.caught # "ValueError"

C8_Witness ==
    /\ Saved
    /\ WrittenByModify
    /\ fsTemplate.slides[1].orig = 3
====
